---------------------------- MODULE Spec2Model ----------------------------
(***************************************************************************)
(* A model of vkts/usrdata.py: class UsrData, the file-backed store of     *)
(* the three JSON documents acc, adm and univ, with its path-addressed     *)
(* get / set / del_ / drop_activations / get_active_obj operations.        *)
(*                                                                         *)
(* JSON values are tagged records [t, v]:                                  *)
(*   null  [t |-> "null", v |-> <<>>]      bool  [t |-> "bool", v |-> b]   *)
(*   str   [t |-> "str",  v |-> s]         list  [t |-> "list", v |-> seq] *)
(*   dict  [t |-> "dict", v |-> seq of <<key segment, value>>], the pairs  *)
(*         in insertion order (Python dicts keep insertion order).         *)
(* A path segment is a string key [t |-> "key", v |-> s] or an integer     *)
(* index [t |-> "idx", v |-> i].  A dict key is a segment: in memory a     *)
(* dict can hold an integer key (d.update(((0, x),))), which json.dump     *)
(* writes as the string "0".                                               *)
(***************************************************************************)
EXTENDS Integers, Sequences, FiniteSets, TLC

VARIABLES
    file,   \* the three data files: document name -> JSON value stored
    mem,    \* self.__dict__ of the UsrData instance: a dict acc/adm/univ
    last,   \* the last call: operation, arguments, outcome, files before it
    nops,   \* number of calls made so far
    rfile,  \* two-invocation scenario: the shared data files
    rmem,   \* two-invocation scenario: each invocation's own self.__dict__
    rpc,    \* two-invocation scenario: each invocation's position
    rop,    \* two-invocation scenario: each invocation's call
    rlog    \* two-invocation scenario: the order of loads and stores

vars == <<file, mem, last, nops, rfile, rmem, rpc, rop, rlog>>

----------------------------------------------------------------------------
\* Values and path segments

Null == [t |-> "null", v |-> <<>>]

Bool(b) == [t |-> "bool", v |-> b]

Str(s) == [t |-> "str", v |-> s]

List(s) == [t |-> "list", v |-> s]

Dict(s) == [t |-> "dict", v |-> s]

Key(s) == [t |-> "key", v |-> s]

Idx(i) == [t |-> "idx", v |-> i]

EmptyDict == Dict(<<>>)

IsAct == Key("is_activated")

\* An activatable object {"is_activated": b}
Obj(b) == Dict(<< <<IsAct, Bool(b)>> >>)

\* Outcome of a Python expression: a value, or an exception raised
Ok(x) == [err |-> FALSE, val |-> x]

Raised(x) == [err |-> TRUE, val |-> x]

----------------------------------------------------------------------------
\* Python container primitives used by the code

\* position of key k in dict d (0 when absent)
KeyPos(d, k) ==
    IF \E i \in 1..Len(d.v) : d.v[i][1] = k
    THEN CHOOSE i \in 1..Len(d.v) : d.v[i][1] = k
    ELSE 0

HasKey(d, k) == KeyPos(d, k) # 0

DictGet(d, k) == d.v[KeyPos(d, k)][2]

\* d[k] = x on a dict: overwrite in place, or insert at the end
DictPut(d, k, x) ==
    IF HasKey(d, k)
    THEN Dict([d.v EXCEPT ![KeyPos(d, k)] = <<k, x>>])
    ELSE Dict(Append(d.v, <<k, x>>))

RemoveAt(s, p) == SubSeq(s, 1, p - 1) \o SubSeq(s, p + 1, Len(s))

\* del d[k] on a dict
DictDel(d, k) == Dict(RemoveAt(d.v, KeyPos(d, k)))

\* Python's list index i (negative counts from the end) as a 1-based position
ValidIdx(n, i) == i < n /\ i >= -n

Pos(n, i) == IF i < 0 THEN n + i + 1 ELSE i + 1

\* f == x for a path segment f and a stored value x (True == 1, False == 0)
PyEq(f, x) ==
    IF f.t = "key"
    THEN x.t = "str" /\ x.v = f.v
    ELSE x.t = "bool" /\ ((x.v /\ f.v = 1) \/ (~x.v /\ f.v = 0))

\* `f in d`: "yes", "no", or "raise" (TypeError).  For a str d the test is
\* substring containment; no string of the model is a proper substring of
\* another, so it is equality.
PyIn(f, d) ==
    CASE d.t = "dict" -> IF HasKey(d, f) THEN "yes" ELSE "no"
      [] d.t = "list" -> IF \E i \in 1..Len(d.v) : PyEq(f, d.v[i])
                         THEN "yes" ELSE "no"
      [] d.t = "str"  -> IF f.t = "idx" THEN "raise"
                         ELSE IF f.v = d.v THEN "yes" ELSE "no"
      [] OTHER        -> "raise"

\* d[f]: KeyError, IndexError or TypeError are Raised.  (A str is never
\* indexed by an integer in the code: `f in d` raises first.)
PyGetItem(d, f) ==
    CASE d.t = "dict" -> IF HasKey(d, f) THEN Ok(DictGet(d, f)) ELSE Raised(d)
      [] d.t = "list" -> IF f.t = "idx" /\ ValidIdx(Len(d.v), f.v)
                         THEN Ok(d.v[Pos(Len(d.v), f.v)])
                         ELSE Raised(d)
      [] OTHER        -> Raised(d)

\* d[f] = x
PySetItem(d, f, x) ==
    CASE d.t = "dict" -> Ok(DictPut(d, f, x))
      [] d.t = "list" -> IF f.t = "idx" /\ ValidIdx(Len(d.v), f.v)
                         THEN Ok(List([d.v EXCEPT ![Pos(Len(d.v), f.v)] = x]))
                         ELSE Raised(d)
      [] OTHER        -> Raised(d)

\* bool(x)
Truthy(x) ==
    CASE x.t = "null" -> FALSE
      [] x.t = "bool" -> x.v
      [] x.t = "str"  -> x.v # ""
      [] OTHER        -> Len(x.v) > 0

----------------------------------------------------------------------------
\* json.dump / json.load

\* str(i) for the integers a dict key can be
IntStr(i) ==
    CASE i = -1 -> "-1"
      [] i = 0  -> "0"
      [] i = 1  -> "1"

\* the key json.dump writes for a dict key: an integer key becomes a string
JsonKey(k) == IF k.t = "idx" THEN Key(IntStr(k.v)) ELSE k

RECURSIVE JsonPairs(_)
RECURSIVE JsonItems(_)
RECURSIVE JsonDump(_)
\* the JSON text written for value x, as the value that text denotes member
\* by member (pairs in order, duplicate keys kept)
JsonDump(x) ==
    CASE x.t = "list" -> List(JsonItems(x.v))
      [] x.t = "dict" -> Dict(JsonPairs(x.v))
      [] OTHER        -> x

JsonItems(s) ==
    IF s = <<>> THEN <<>> ELSE <<JsonDump(s[1])>> \o JsonItems(Tail(s))

JsonPairs(s) ==
    IF s = <<>> THEN <<>>
    ELSE <<  <<JsonKey(s[1][1]), JsonDump(s[1][2])>>  >> \o JsonPairs(Tail(s))

RECURSIVE LoadPairs(_, _)
RECURSIVE LoadItems(_)
RECURSIVE JsonLoad(_)
\* json.load of a written text: an object's pairs are put into a dict one
\* by one, so a repeated key keeps its first position and its last value
JsonLoad(x) ==
    CASE x.t = "list" -> List(LoadItems(x.v))
      [] x.t = "dict" -> LoadPairs(EmptyDict, x.v)
      [] OTHER        -> x

LoadItems(s) ==
    IF s = <<>> THEN <<>> ELSE <<JsonLoad(s[1])>> \o LoadItems(Tail(s))

LoadPairs(d, s) ==
    IF s = <<>> THEN d
    ELSE LoadPairs(DictPut(d, s[1][1], JsonLoad(s[1][2])), Tail(s))

Docs == {"acc", "adm", "univ"}

\* generate_if_absent: the content of a freshly generated data directory
DefaultFile ==
    [D \in Docs |->
        IF D = "adm"
        THEN Dict(<< <<Key("bc_emails"), List(<<>>)>>,
                     <<Key("mon_groups"), List(<<>>)>> >>)
        ELSE EmptyDict]

\* open: self.acc, self.adm, self.univ are loaded from the three files
Open(f) ==
    Dict(<< <<Key("acc"), JsonLoad(f["acc"])>>,
            <<Key("adm"), JsonLoad(f["adm"])>>,
            <<Key("univ"), JsonLoad(f["univ"])>> >>)

\* json.dump(self.__dict__[data_type], open(file_path, 'w'))
Persist(f, m, D) == [f EXCEPT ![D] = JsonDump(DictGet(m, Key(D)))]

----------------------------------------------------------------------------
\* UsrData.get

RECURSIVE GetWalk(_, _)
\* the loop of get over the fields, from container d: Ok(value found),
\* Ok(Null) for `return None`, Raised for an exception (AssertionError,
\* TypeError, IndexError) caught by `except Exception`
GetWalk(d, fields) ==
    IF fields = <<>> THEN Ok(d)
    ELSE LET f == Head(fields) IN
         IF d.t = "null" THEN Ok(Null)
         ELSE IF f.t = "idx"
         THEN IF d.t # "list" THEN Raised(Null)
              ELSE IF f.v < Len(d.v)
                   THEN LET x == PyGetItem(d, f) IN
                        IF x.err THEN Raised(Null)
                        ELSE GetWalk(x.val, Tail(fields))
                   ELSE Ok(Null)
         ELSE LET m == PyIn(f, d) IN
              IF m = "raise" THEN Raised(Null)
              ELSE IF m = "yes"
                   THEN LET x == PyGetItem(d, f) IN
                        IF x.err THEN Raised(Null)
                        ELSE GetWalk(x.val, Tail(fields))
                   ELSE Ok(Null)

\* get(*path) on files f: open, then the walk from self.__dict__
GetResult(f, path) == GetWalk(Open(f), path)

----------------------------------------------------------------------------
\* The correction of `is_activated` after a write or a removal

\* x['is_activated'] raises for x (not a dict, or a dict without the key)
NoIsAct(x) == x.t # "dict" \/ ~HasKey(x, IsAct)

\* CorrectIsAct with the test inverted (`if list(filter(bool, attr_list))`):
\* the first entry is activated only where some entry is active already
CorrectIsActInverted(d) ==
    IF d.t # "dict" \/ Len(d.v) = 0 THEN Ok(d)
    ELSE IF \E i \in 1..Len(d.v) : NoIsAct(d.v[i][2]) THEN Raised(d)
    ELSE IF \E i \in 1..Len(d.v) : Truthy(DictGet(d.v[i][2], IsAct))
         THEN Ok(Dict([d.v EXCEPT ![1] =
                 <<d.v[1][1], DictPut(d.v[1][2], IsAct, Bool(TRUE))>>]))
         ELSE Ok(d)

\* CorrectIsAct activating the last entry (`list(d.keys())[-1]`)
CorrectIsActLast(d) ==
    IF d.t # "dict" \/ Len(d.v) = 0 THEN Ok(d)
    ELSE IF \E i \in 1..Len(d.v) : NoIsAct(d.v[i][2]) THEN Raised(d)
    ELSE IF \E i \in 1..Len(d.v) : Truthy(DictGet(d.v[i][2], IsAct))
         THEN Ok(d)
         ELSE Ok(Dict([d.v EXCEPT ![Len(d.v)] =
                 <<d.v[Len(d.v)][1],
                   DictPut(d.v[Len(d.v)][2], IsAct, Bool(TRUE))>>]))

\* `if correct_is_act and len(d) > 0:` and its body, on the container d
CorrectIsAct(d) ==
    CASE d.t \in {"null", "bool"} -> Raised(d)
      [] d.t = "str"  -> IF d.v = "" THEN Ok(d) ELSE Raised(d)
      [] d.t = "list" -> IF Len(d.v) = 0 THEN Ok(d) ELSE Raised(d)
      [] d.t = "dict" ->
           IF Len(d.v) = 0 THEN Ok(d)
           ELSE IF \E i \in 1..Len(d.v) : NoIsAct(d.v[i][2]) THEN Raised(d)
           ELSE IF \E i \in 1..Len(d.v) : Truthy(DictGet(d.v[i][2], IsAct))
                THEN Ok(d)
                ELSE Ok(Dict([d.v EXCEPT ![1] =
                        <<d.v[1][1], DictPut(d.v[1][2], IsAct, Bool(TRUE))>>]))

----------------------------------------------------------------------------
\* UsrData.set

\* the write at the parent container d: append to a list found at `last`,
\* else d.update(((last, new_obj),)); then the correction when asked for
SetLast(d, lst, new, correct) ==
    LET m == PyIn(lst, d) IN
    IF m = "raise" THEN Raised(d)
    ELSE LET x == IF m = "yes" THEN PyGetItem(d, lst) ELSE Ok(Null) IN
         IF x.err THEN Raised(d)
         ELSE LET w == IF m = "yes" /\ x.val.t = "list"
                       THEN PySetItem(d, lst, List(Append(x.val.v, new)))
                       ELSE IF d.t = "dict" THEN Ok(DictPut(d, lst, new))
                       ELSE Raised(d)
              IN IF w.err \/ ~correct THEN w ELSE CorrectIsAct(w.val)

RECURSIVE SetWalk(_, _, _, _, _)
\* the loop of set over the parent fields, creating {} where a field is
\* missing or None, then the write; the result is container d as the call
\* leaves it (also when it raises part-way)
SetWalk(d, fields, lst, new, correct) ==
    IF fields = <<>> THEN SetLast(d, lst, new, correct)
    ELSE LET f == Head(fields)
             m == PyIn(f, d)
         IN
         IF m = "raise" THEN Raised(d)
         ELSE LET x == IF m = "yes" THEN PyGetItem(d, f) ELSE Ok(Null) IN
              IF x.err THEN Raised(d)
              ELSE LET d1 == IF m = "no" \/ x.val.t = "null"
                             THEN PySetItem(d, f, EmptyDict)
                             ELSE Ok(d)
                   IN
                   IF d1.err THEN Raised(d)
                   ELSE LET r == SetWalk(PyGetItem(d1.val, f).val,
                                         Tail(fields), lst, new, correct)
                        IN [err |-> r.err,
                            val |-> PySetItem(d1.val, f, r.val).val]

Front(s) == SubSeq(s, 1, Len(s) - 1)

\* the try-block of set up to the file update, on the loaded self.__dict__ m
SetOn(m, new, path, correct) ==
    SetWalk(m, Front(path), path[Len(path)], new, correct)

\* set(new, *path, correct_is_act=correct) on files f:
\* [err, mem: self.__dict__ after the call, file: the files after the call]
SetResult(f, new, path, correct) ==
    LET r == SetOn(Open(f), new, path, correct) IN
    [err |-> r.err,
     mem |-> r.val,
     file |-> IF r.err THEN f ELSE Persist(f, r.val, path[1].v)]

----------------------------------------------------------------------------
\* UsrData.del_

\* position of the first element of list d equal to segment f (list.remove)
FirstEq(d, f) ==
    CHOOSE i \in 1..Len(d.v) :
        PyEq(f, d.v[i]) /\ \A j \in 1..(i - 1) : ~PyEq(f, d.v[j])

\* the removal at the resolved parent container d
DelItem(d, lst) ==
    CASE d.t = "list" ->
           IF lst.t = "idx"
           THEN IF lst.v < Len(d.v)
                THEN IF ValidIdx(Len(d.v), lst.v)
                     THEN Ok(List(RemoveAt(d.v, Pos(Len(d.v), lst.v))))
                     ELSE Raised(d)
                ELSE Ok(d)
           ELSE IF PyIn(lst, d) = "yes"
                THEN Ok(List(RemoveAt(d.v, FirstEq(d, lst))))
                ELSE Ok(d)
      [] d.t = "dict" -> IF HasKey(d, lst) THEN Ok(DictDel(d, lst)) ELSE Ok(d)
      [] OTHER -> Ok(d)

\* the removal, then the correction when asked for: [st, val] with st
\* "ok" (go on to the file update) or "err" (an exception was raised)
DelLast(d, lst, correct) ==
    LET w == DelItem(d, lst) IN
    IF w.err THEN [st |-> "err", val |-> d]
    ELSE IF ~correct THEN [st |-> "ok", val |-> w.val]
    ELSE LET c == CorrectIsAct(w.val) IN
         [st |-> IF c.err THEN "err" ELSE "ok", val |-> c.val]

RECURSIVE DelWalkBreak(_, _, _, _)
\* DelWalk with `break` where the loop has `return None`: a parent path that
\* does not resolve goes on to the file update
DelWalkBreak(d, fields, lst, correct) ==
    IF fields = <<>> THEN DelLast(d, lst, correct)
    ELSE LET f == Head(fields)
             brk == [st |-> "ok", val |-> d]
             err == [st |-> "err", val |-> d]
             down == LET r == DelWalkBreak(PyGetItem(d, f).val, Tail(fields),
                                           lst, correct)
                     IN [st |-> r.st, val |-> PySetItem(d, f, r.val).val]
         IN
         IF d.t = "null" THEN brk
         ELSE IF f.t = "idx"
         THEN IF d.t # "list" THEN err
              ELSE IF f.v < Len(d.v)
                   THEN IF PyGetItem(d, f).err THEN err ELSE down
                   ELSE brk
         ELSE LET m == PyIn(f, d) IN
              IF m = "raise" THEN err
              ELSE IF m = "yes"
                   THEN IF PyGetItem(d, f).err THEN err ELSE down
                   ELSE brk

RECURSIVE DelWalkCreate(_, _, _, _)
\* DelWalk with the loop of set: a missing field of a dict is created as {}
DelWalkCreate(d, fields, lst, correct) ==
    IF fields = <<>> THEN DelLast(d, lst, correct)
    ELSE LET f == Head(fields)
             ret == [st |-> "ret", val |-> d]
             err == [st |-> "err", val |-> d]
             d1 == IF d.t = "dict" /\ ~HasKey(d, f)
                   THEN DictPut(d, f, EmptyDict) ELSE d
             down == LET r == DelWalkCreate(PyGetItem(d1, f).val,
                                            Tail(fields), lst, correct)
                     IN [st |-> r.st, val |-> PySetItem(d1, f, r.val).val]
         IN
         IF d.t = "null" THEN ret
         ELSE IF f.t = "idx"
         THEN IF d.t # "list" THEN err
              ELSE IF f.v < Len(d.v)
                   THEN IF PyGetItem(d, f).err THEN err ELSE down
                   ELSE ret
         ELSE LET m == PyIn(f, d1) IN
              IF m = "raise" THEN err
              ELSE IF m = "yes"
                   THEN IF PyGetItem(d1, f).err THEN err ELSE down
                   ELSE ret

RECURSIVE DelWalk(_, _, _, _)
\* the loop of del_ over the parent fields, then the removal: st is "ret"
\* where the loop leaves the function by `return None`
DelWalk(d, fields, lst, correct) ==
    IF fields = <<>> THEN DelLast(d, lst, correct)
    ELSE LET f == Head(fields)
             ret == [st |-> "ret", val |-> d]
             err == [st |-> "err", val |-> d]
             down == LET r == DelWalk(PyGetItem(d, f).val, Tail(fields),
                                      lst, correct)
                     IN [st |-> r.st, val |-> PySetItem(d, f, r.val).val]
         IN
         IF d.t = "null" THEN ret
         ELSE IF f.t = "idx"
         THEN IF d.t # "list" THEN err
              ELSE IF f.v < Len(d.v)
                   THEN IF PyGetItem(d, f).err THEN err ELSE down
                   ELSE ret
         ELSE LET m == PyIn(f, d) IN
              IF m = "raise" THEN err
              ELSE IF m = "yes"
                   THEN IF PyGetItem(d, f).err THEN err ELSE down
                   ELSE ret

\* the try-block of del_ up to the file update, on the loaded self.__dict__
DelOn(m, path, correct) ==
    DelWalk(m, Front(path), path[Len(path)], correct)

\* del_(*path, correct_is_act=correct) on files f: [st, mem, file, wrote]
DelResult(f, path, correct) ==
    LET r == DelOn(Open(f), path, correct) IN
    [st |-> r.st,
     mem |-> r.val,
     wrote |-> r.st = "ok",
     file |-> IF r.st = "ok" THEN Persist(f, r.val, path[1].v) ELSE f]

----------------------------------------------------------------------------
\* UsrData.drop_activations

RECURSIVE DropAllButLast(_, _)
\* DropAll stopping one entry early
DropAllButLast(d, i) ==
    IF i >= Len(d.v) THEN Ok(d)
    ELSE IF d.v[i][2].t # "dict" THEN Raised(d)
    ELSE DropAllButLast(Dict([d.v EXCEPT ![i] =
                  <<d.v[i][1], DictPut(d.v[i][2], IsAct, Bool(FALSE))>>]),
                 i + 1)

RECURSIVE DropAll(_, _)
\* `for obj_key in objs_dict.keys(): objs_dict[obj_key]['is_activated'] =
\* False` from pair i on: an entry that is not a dict raises, the entries
\* before it stay changed
DropAll(d, i) ==
    IF i > Len(d.v) THEN Ok(d)
    ELSE IF d.v[i][2].t # "dict" THEN Raised(d)
    ELSE DropAll(Dict([d.v EXCEPT ![i] =
                  <<d.v[i][1], DictPut(d.v[i][2], IsAct, Bool(FALSE))>>]),
                 i + 1)

RECURSIVE ReplaceAt(_, _, _)
\* container d with the value that `fields` resolves to replaced by x (the
\* loop above changes objs_dict in place, inside self.__dict__)
ReplaceAt(d, fields, x) ==
    IF fields = <<>> THEN x
    ELSE LET f == Head(fields) IN
         PySetItem(d, f, ReplaceAt(PyGetItem(d, f).val, Tail(fields), x)).val

\* drop_activations(*path) on files f: [err, mem, file].  objs_dict is what
\* get returns: None (or a value without keys()) raises AttributeError
DropResult(f, path) ==
    LET g == GetResult(f, path)
        r == IF g.err \/ g.val.t # "dict" THEN Raised(g.val)
             ELSE DropAll(g.val, 1)
        m == IF g.err \/ g.val.t # "dict" THEN Open(f)
             ELSE ReplaceAt(Open(f), path, r.val)
    IN [err |-> r.err,
        mem |-> m,
        file |-> IF r.err THEN f ELSE Persist(f, m, path[1].v)]

----------------------------------------------------------------------------
\* UsrData.get_active_obj

RECURSIVE LastActive(_, _)
\* FirstActive without the `break`: the loop runs on to the last active entry
LastActive(d, i) ==
    IF i > Len(d.v) THEN 0
    ELSE IF NoIsAct(d.v[i][2]) THEN 0
    ELSE LET r == LastActive(d, i + 1) IN
         IF r # 0 THEN r
         ELSE IF Truthy(DictGet(d.v[i][2], IsAct)) THEN i ELSE 0

RECURSIVE FirstActive(_, _)
\* the for/else over objs_dict.keys() from pair i on: the position of the
\* first entry whose is_activated is true; 0 where the loop raises (an
\* entry without is_activated, or no entry left: the bare `raise`)
FirstActive(d, i) ==
    IF i > Len(d.v) THEN 0
    ELSE IF NoIsAct(d.v[i][2]) THEN 0
    ELSE IF Truthy(DictGet(d.v[i][2], IsAct)) THEN i
    ELSE FirstActive(d, i + 1)

\* get_active_obj(*path) on files f: [err, key, obj]; on failure the
\* except clause is entered and nothing is returned
ActiveResult(f, path) ==
    LET g == GetResult(f, path)
        p == IF g.err \/ g.val.t # "dict" THEN 0 ELSE FirstActive(g.val, 1)
    IN IF p = 0
       THEN [err |-> TRUE, key |-> Key(""), obj |-> Null]
       ELSE [err |-> FALSE, key |-> g.val.v[p][1], obj |-> g.val.v[p][2]]

----------------------------------------------------------------------------
\* Bounds and inputs

\* calls made in one run of the general and the delete scenarios
MaxOps == 2

KeySegs == {Key("bc_emails"), Key("vk")}

Segs == KeySegs \cup {Idx(-1), Idx(0)}

\* the field paths under document D: D, then one or two segments of S
PathsOver(D, S) ==
    {<<Key(D), a>> : a \in S} \cup {<<Key(D), a, b>> : a \in S, b \in S}

Paths(D) == PathsOver(D, Segs)

Vals == {Null, Bool(TRUE), Str("vk"), List(<<>>), Obj(FALSE)}

\* the delete scenario: the documents worked on (univ starts as acc does),
\* and the set calls that build them
BuildDocs == {"acc", "adm"}

BuildVals == {Null, Str("vk"), Obj(FALSE)}

BuildPaths(D) ==
    {<<Key(D), k>> : k \in KeySegs} \cup {<<Key(D), Key("vk"), k>> : k \in KeySegs}

DelSegs == KeySegs \cup {Idx(0), Idx(1)}

\* the activation scenarios: the accounts of acc['vk']
Names == {Key("alice"), Key("bob"), Key("carol")}

VkPath == <<Key("acc"), Key("vk")>>

----------------------------------------------------------------------------
\* The calls of one UsrData instance

NoCall ==
    [op |-> "none", path |-> <<>>, val |-> Null, correct |-> FALSE,
     err |-> FALSE, ret |-> Null, key |-> Key(""), wrote |-> FALSE,
     early |-> FALSE, pre |-> DefaultFile]

RaceIdle == UNCHANGED <<rfile, rmem, rpc, rop, rlog>>

Get(path) ==
    LET r == GetResult(file, path) IN
    /\ mem' = Open(file)
    /\ file' = file
    /\ last' = [NoCall EXCEPT !.op = "get", !.path = path, !.err = r.err,
                              !.ret = r.val, !.pre = file]
    /\ RaceIdle

Set(new, path, correct) ==
    LET r == SetResult(file, new, path, correct) IN
    /\ mem' = r.mem
    /\ file' = r.file
    /\ last' = [NoCall EXCEPT !.op = "set", !.path = path, !.val = new,
                              !.correct = correct, !.err = r.err,
                              !.wrote = ~r.err, !.pre = file]
    /\ RaceIdle

Del(path, correct) ==
    LET r == DelResult(file, path, correct) IN
    /\ mem' = r.mem
    /\ file' = r.file
    /\ last' = [NoCall EXCEPT !.op = "del", !.path = path,
                              !.correct = correct, !.err = (r.st = "err"),
                              !.early = (r.st = "ret"),
                              !.wrote = r.wrote, !.pre = file]
    /\ RaceIdle

Drop(path) ==
    LET r == DropResult(file, path) IN
    /\ mem' = r.mem
    /\ file' = r.file
    /\ last' = [NoCall EXCEPT !.op = "drop", !.path = path, !.err = r.err,
                              !.wrote = ~r.err, !.pre = file]
    /\ RaceIdle

GetActive(path) ==
    LET r == ActiveResult(file, path) IN
    /\ mem' = Open(file)
    /\ file' = file
    /\ last' = [NoCall EXCEPT !.op = "active", !.path = path, !.err = r.err,
                              !.ret = r.obj, !.key = r.key, !.pre = file]
    /\ RaceIdle

\* one more call of a run of at most MaxOps calls
Tick == nops < MaxOps /\ nops' = nops + 1

Init ==
    /\ file = DefaultFile
    /\ mem = EmptyDict
    /\ last = NoCall
    /\ nops = 0
    /\ rfile = DefaultFile
    /\ rmem = <<EmptyDict, EmptyDict>>
    /\ rpc = <<"idle", "idle">>
    /\ rop = <<NoCall, NoCall>>
    /\ rlog = <<>>

\* General scenario: get and set (correct_is_act left at its default) with
\* every path and value of the inputs
DoGet == \E D \in Docs : \E path \in Paths(D) : Tick /\ Get(path)

DoSet ==
    \E D \in Docs : \E path \in Paths(D) : \E new \in Vals :
        Tick /\ Set(new, path, FALSE)

Next == DoGet \/ DoSet

Spec == Init /\ [][Next]_vars

\* Delete scenario: set calls build the documents, del_ is called with
\* every path and either flag
DoBuild ==
    \E D \in BuildDocs : \E path \in BuildPaths(D) :
        \E new \in BuildVals : Tick /\ Set(new, path, FALSE)

DoDel ==
    \E D \in BuildDocs : \E path \in PathsOver(D, DelSegs) :
        \E correct \in BOOLEAN : Tick /\ Del(path, correct)

NextDel == DoBuild \/ DoDel

SpecDel == Init /\ [][NextDel]_vars

\* Activation scenario: accounts of acc['vk'] are written and deleted with
\* correct_is_act=True, and the active one is looked up
ActSet ==
    \E k \in Names : \E b \in BOOLEAN :
        Set(Obj(b), Append(VkPath, k), TRUE) /\ UNCHANGED nops

ActDel == \E k \in Names : Del(Append(VkPath, k), TRUE) /\ UNCHANGED nops

ActFind == GetActive(VkPath) /\ UNCHANGED nops

NextAct == ActSet \/ ActDel \/ ActFind

SpecAct == Init /\ [][NextAct]_vars

\* Activation scenario with drop_activations, and with set under either flag
ActPut ==
    \E k \in Names : \E b \in BOOLEAN : \E correct \in BOOLEAN :
        Set(Obj(b), Append(VkPath, k), correct) /\ UNCHANGED nops

ActDrop == Drop(VkPath) /\ UNCHANGED nops

NextDrop == ActPut \/ ActDel \/ ActFind \/ ActDrop

SpecDrop == Init /\ [][NextDrop]_vars

----------------------------------------------------------------------------
\* Two invocations of the program on the same data files.  Each is its own
\* process with its own UsrData instance: it loads the three documents
\* (open), then changes its copy and rewrites the whole document.  Nothing
\* locks the files between the two steps.

Procs == {1, 2}

\* invocation 1 works on acc['vk']['alice'], invocation 2 on acc['vk']['bob']
RaceKey(p) == IF p = 1 THEN Key("alice") ELSE Key("bob")

RacePath(p) == Append(VkPath, RaceKey(p))

\* the calls an invocation can make: set of an object, or del_
RaceCalls(p) ==
    {[NoCall EXCEPT !.op = "set", !.path = RacePath(p), !.val = Obj(b)] :
        b \in BOOLEAN}
    \cup {[NoCall EXCEPT !.op = "del", !.path = RacePath(p)]}

\* the data files with acc = {"vk": m}
FilesWithVk(m) ==
    [DefaultFile EXCEPT !["acc"] = Dict(<< <<Key("vk"), m>> >>)]

\* the data files the two invocations find
RaceFiles ==
    {DefaultFile,
     FilesWithVk(Dict(<< <<Key("alice"), Obj(TRUE)>> >>)),
     FilesWithVk(Dict(<< <<Key("alice"), Obj(TRUE)>>,
                         <<Key("bob"), Obj(FALSE)>> >>)),
     FilesWithVk(Dict(<< <<Key("carol"), Obj(TRUE)>> >>))}

InitRace ==
    /\ file = DefaultFile
    /\ mem = EmptyDict
    /\ last = NoCall
    /\ nops = 0
    /\ rfile \in RaceFiles
    /\ rmem = <<EmptyDict, EmptyDict>>
    /\ rpc = <<"idle", "idle">>
    /\ rop = <<NoCall, NoCall>>
    /\ rlog = <<>>

\* generate_if_absent and open of invocation p, entering its call c
RaceLoad(p, c) ==
    /\ rpc[p] = "idle"
    /\ rpc' = [rpc EXCEPT ![p] = "loaded"]
    /\ rmem' = [rmem EXCEPT ![p] = Open(rfile)]
    /\ rop' = [rop EXCEPT ![p] = [c EXCEPT !.pre = rfile]]
    /\ rlog' = Append(rlog, <<"load", p>>)
    /\ UNCHANGED <<rfile, file, mem, last, nops>>

\* the change of invocation p on a copy loaded afresh at the time of the
\* write
RaceChangeFresh(p) ==
    IF rop[p].op = "set"
    THEN LET r == SetOn(Open(rfile), rop[p].val, rop[p].path, FALSE) IN
         [mem |-> r.val, write |-> ~r.err]
    ELSE LET r == DelOn(Open(rfile), rop[p].path, FALSE) IN
         [mem |-> r.val, write |-> r.st = "ok"]

\* the change of invocation p on its loaded copy
RaceChange(p) ==
    IF rop[p].op = "set"
    THEN LET r == SetOn(rmem[p], rop[p].val, rop[p].path, FALSE) IN
         [mem |-> r.val, write |-> ~r.err]
    ELSE LET r == DelOn(rmem[p], rop[p].path, FALSE) IN
         [mem |-> r.val, write |-> r.st = "ok"]

\* the rest of the call of invocation p: the change, then json.dump of the
\* whole document
RaceStore(p) ==
    /\ rpc[p] = "loaded"
    /\ rpc' = [rpc EXCEPT ![p] = "done"]
    /\ rmem' = [rmem EXCEPT ![p] = RaceChange(p).mem]
    /\ rfile' = IF RaceChange(p).write
                THEN Persist(rfile, RaceChange(p).mem, "acc")
                ELSE rfile
    /\ rlog' = Append(rlog, <<IF RaceChange(p).write THEN "store" ELSE "skip",
                              p>>)
    /\ UNCHANGED <<rop, file, mem, last, nops>>

DoLoad == \E p \in Procs : \E c \in RaceCalls(p) : RaceLoad(p, c)

DoStore == \E p \in Procs : RaceStore(p)

NextRace == DoLoad \/ DoStore

SpecRace == InitRace /\ [][NextRace]_vars

----------------------------------------------------------------------------
\* What the claims speak of

RECURSIVE Resolves(_, _)
\* `fields` addresses an existing location under container d: every string
\* segment is a key of a dict, every integer segment an index of a list
Resolves(d, fields) ==
    IF fields = <<>> THEN TRUE
    ELSE LET f == Head(fields) IN
         /\ \/ d.t = "dict" /\ f.t = "key" /\ HasKey(d, f)
            \/ d.t = "list" /\ f.t = "idx" /\ ValidIdx(Len(d.v), f.v)
         /\ Resolves(PyGetItem(d, f).val, Tail(fields))

RECURSIVE ValueAt(_, _)
\* the value at an existing location
ValueAt(d, fields) ==
    IF fields = <<>> THEN d
    ELSE ValueAt(PyGetItem(d, Head(fields)).val, Tail(fields))

\* the location exists in the files f
Exists(f, path) == Resolves(Open(f), path)

\* a sequence is stored at the location in the files f
SeqAt(f, path) == Exists(f, path) /\ ValueAt(Open(f), path).t = "list"

\* every segment of the path is a string key
KeysOnly(path) == \A i \in 1..Len(path) : path[i].t = "key"

----------------------------------------------------------------------------
\* C1: round trip.  After set(V, D, P) on a path P where no sequence was
\* stored, get(D, P) on the re-loaded files returns V.
C1_RoundTrip ==
    (last.op = "set" /\ ~SeqAt(last.pre, last.path))
        => LET g == GetResult(file, last.path) IN ~g.err /\ g.val = last.val

\* C2: append.  After set(V, D, P) on a path P where the sequence S was
\* stored, get(D, P) returns S with V appended as its last element.
C2_Append ==
    (last.op = "set" /\ SeqAt(last.pre, last.path))
        => LET g == GetResult(file, last.path)
               S == ValueAt(Open(last.pre), last.path)
           IN ~g.err /\ g.val = List(Append(S.v, last.val))

\* C3: get is total.  For a path that addresses no existing location, get
\* returns None and does not enter the except clause.
C3_GetTotal ==
    (last.op = "get" /\ ~Exists(last.pre, last.path))
        => ~last.err /\ last.ret = Null

----------------------------------------------------------------------------
\* the parent path of the call resolves in the files f
ParentExists(f, path) == Exists(f, Front(path))

\* the path addresses something del_ can remove: a key of a dict, an index
\* of a list, or a string that is an element of a list
Addresses(f, path) ==
    /\ ParentExists(f, path)
    /\ LET d == ValueAt(Open(f), Front(path))
           lst == path[Len(path)]
       IN \/ Exists(f, path)
          \/ d.t = "list" /\ lst.t = "key" /\ PyIn(lst, d) = "yes"

----------------------------------------------------------------------------
\* The mapping acc['vk'] of activatable objects (empty while absent)

VkMap(f) == IF Exists(f, VkPath) THEN ValueAt(Open(f), VkPath) ELSE EmptyDict

Active(x) == ~NoIsAct(x) /\ Truthy(DictGet(x, IsAct))

NumActive(m) == Cardinality({i \in 1..Len(m.v) : Active(m.v[i][2])})

\* C5, as claimed: whenever the mapping is non-empty, exactly one of its
\* objects is active.
C5_ExactlyOneActive ==
    Len(VkMap(file).v) > 0 => NumActive(VkMap(file)) = 1

\* C5, amended: whenever the mapping is non-empty, at least one of its
\* objects is active.
C5_SomeActive ==
    Len(VkMap(file).v) > 0 => NumActive(VkMap(file)) >= 1

\* the active one of two or more accounts was deleted
C5_Witness ==
    /\ last.op = "del" /\ last.correct /\ last.wrote
    /\ Exists(last.pre, last.path)
    /\ Active(ValueAt(Open(last.pre), last.path))
    /\ NumActive(VkMap(last.pre)) = 1
    /\ Len(VkMap(file).v) >= 2

\* the mapping after the write or removal of the last call, before the
\* correction
Uncorrected ==
    LET m == IF last.op = "set"
             THEN SetOn(Open(last.pre), last.val, last.path, FALSE).val
             ELSE DelOn(Open(last.pre), last.path, FALSE).val
    IN ValueAt(m, VkPath)

\* C6: a set or del_ with correct_is_act=True that leaves a non-empty
\* mapping with no active object activates exactly the first entry and
\* changes no other entry; where an object is active it changes nothing.
C6_DefaultActivation ==
    (last.op \in {"set", "del"} /\ last.correct /\ last.wrote) =>
        LET W == Uncorrected
            A == VkMap(file)
        IN IF Len(W.v) > 0 /\ NumActive(W) = 0
           THEN /\ Len(A.v) = Len(W.v)
                /\ NumActive(A) = 1
                /\ A.v[1][1] = W.v[1][1]
                /\ Active(A.v[1][2])
                /\ \A i \in 2..Len(W.v) : A.v[i] = W.v[i]
           ELSE A = W

\* the only active account of three was deleted
C6_Witness ==
    /\ last.op = "del" /\ last.correct /\ last.wrote
    /\ Len(VkMap(last.pre).v) = 3
    /\ NumActive(VkMap(last.pre)) = 1
    /\ NumActive(Uncorrected) = 0
    /\ Len(VkMap(file).v) = 2

\* C7: after drop_activations on the mapping, every object of the persisted
\* mapping has is_activated false, and get_active_obj on that path fails.
C7_DropClearsAll ==
    (last.op = "drop" /\ ~last.err) =>
        /\ \A i \in 1..Len(VkMap(file).v) :
               /\ ~NoIsAct(VkMap(file).v[i][2])
               /\ DictGet(VkMap(file).v[i][2], IsAct) = Bool(FALSE)
        /\ ActiveResult(file, last.path).err

\* drop_activations on two or more accounts, the last of them active
C7_Witness ==
    /\ last.op = "drop" /\ ~last.err /\ last.wrote
    /\ Len(VkMap(last.pre).v) >= 2
    /\ Active(VkMap(last.pre).v[Len(VkMap(last.pre).v)][2])

\* C8: get_active_obj returns the key and the object of the first active
\* entry in insertion order; with no active entry (or no entry) it fails
\* and returns nothing.
C8_FindActive ==
    last.op = "active" =>
        LET M == VkMap(last.pre) IN
        IF NumActive(M) > 0
        THEN /\ ~last.err
             /\ \E p \in 1..Len(M.v) :
                   /\ Active(M.v[p][2])
                   /\ \A j \in 1..(p - 1) : ~Active(M.v[j][2])
                   /\ last.key = M.v[p][1]
                   /\ last.ret = M.v[p][2]
        ELSE last.err /\ last.ret = Null

\* the first entry is inactive and two later entries are active
C8_Witness ==
    /\ last.op = "active" /\ ~last.err
    /\ Len(VkMap(last.pre).v) = 3
    /\ ~Active(VkMap(last.pre).v[1][2])
    /\ NumActive(VkMap(last.pre)) = 2

----------------------------------------------------------------------------
\* position of an event in the log of the two invocations: "load", then
\* "store" (the document was rewritten) or "skip" (del_ returned before)
At(e) == CHOOSE i \in 1..Len(rlog) : rlog[i] = e

Stored(p) == \E i \in 1..Len(rlog) : rlog[i] = <<"store", p>>

\* the change of invocation p is in the files f
Changed(f, p) ==
    IF rop[p].op = "set"
    THEN Exists(f, rop[p].path) /\ ValueAt(Open(f), rop[p].path) = rop[p].val
    ELSE ~Exists(f, rop[p].path)

\* the location invocation p works on is in f as it is in g
SameAt(f, g, p) ==
    /\ Exists(f, rop[p].path) = Exists(g, rop[p].path)
    /\ Exists(f, rop[p].path)
          => ValueAt(Open(f), rop[p].path) = ValueAt(Open(g), rop[p].path)

\* C10: lost update.  Once both invocations are done, with p the earlier
\* and q the later to rewrite the document: the change of q is in the
\* files; if q loaded before p stored, the location of p is as q loaded it
\* (the change of p is discarded); if q loaded after p stored, the change
\* of p is there too.
C10_LostUpdate ==
    (rpc = <<"done", "done">>) =>
        \A p \in Procs : \A q \in Procs \ {p} :
            (Stored(p) /\ Stored(q)
               /\ At(<<"store", p>>) < At(<<"store", q>>)) =>
                /\ Changed(rfile, q)
                /\ IF At(<<"load", q>>) < At(<<"store", p>>)
                   THEN SameAt(rfile, rop[q].pre, p)
                   ELSE Changed(rfile, p)

\* both loaded before either stored, and the earlier writer's change is gone
C10_Witness ==
    /\ rpc = <<"done", "done">>
    /\ \E p \in Procs : \E q \in Procs \ {p} :
          /\ Stored(p) /\ Stored(q)
          /\ At(<<"load", q>>) < At(<<"store", p>>)
          /\ At(<<"store", p>>) < At(<<"store", q>>)
          /\ Changed(rfile, q)
          /\ ~Changed(rfile, p)

============================================================================
